---------------------------- MODULE Spec2Model ----------------------------
(***************************************************************************)
(* Model of the TCS3472x colour sensor driver (src/src/tcs3472x.c) and of  *)
(* the I2C transport it calls (tcs3472x_i2c_hal.c).                         *)
(*                                                                         *)
(* Every driver function is one action.  The outcome of each transport     *)
(* call (its return code and, for a read, the bytes left in the buffer) is *)
(* an input of the action.  The state after an action holds the static     *)
(* command_register, the transport calls the operation made, in order,     *)
(* and the value it returned.                                              *)
(*                                                                         *)
(* Times are fixed-point, in tenths of a millisecond: 100.0 ms is 1000,    *)
(* the 2.4 ms register step is 24.  On this grid the single-precision      *)
(* arithmetic of the driver truncates to the same register byte as the     *)
(* exact arithmetic used here.                                             *)
(*                                                                         *)
(* Bit-fields are laid out least-significant first, as the comments of     *)
(* command_register_t and enable_register_t document.                      *)
(***************************************************************************)
EXTENDS Integers, Sequences, FiniteSets

VARIABLES
    command_register, \* static command_register.byte (tcs3472x.c:40)
    op,               \* the driver function called last, "none" before any call
    arg,              \* its arguments (after them, for _build_command_register called
                      \* on its own, the byte command_register held on entry)
    calls,            \* the transport calls it made, in order
    ret,              \* what it returned (buff[0..3] for get_all_colors_data)
    last_set,         \* request, byte and result of the last tcs3472x_set_atime whose write succeeded
    prior_failed      \* some transport call of an earlier operation failed

vars == <<command_register, op, arg, calls, ret, last_set, prior_failed>>

---------------------------------------------------------------------------
(* Bounds of the model *)

\* largest requested integration time, in tenths of a millisecond
MaxTenths == 6200

---------------------------------------------------------------------------
(* Register map and magic numbers *)

ENABLE_REGISTER == 0
ATIME_REGISTER == 1
ID_REGISTER == 18
CDATAL_REGISTER == 20
RDATAL_REGISTER == 22
GDATAL_REGISTER == 24
BDATAL_REGISTER == 26

REPEAT_BYTE == 0
AUTO_INCREMENT == 1
SPECIAL_FUNCTION == 3

\* 2.4f ms, in tenths of a millisecond
INTEGRATION_TIME_MULTIPLIER == 24
INTEGRATION_TIME_CONST == 256
\* 700 ms
INTEGRATION_TIME_SPECIAL_CASE == 700

I2C_WRITE_FAILED == -1
I2C_READ_FAILED == -2

\* a float number of milliseconds, in tenths
Tenths(ms) == 10 * ms

---------------------------------------------------------------------------
(* Bytes and bit-fields *)

\* uint8_t
Byte == 0..255

\* assignment to a bit-field of `width` bits whose lowest bit is bit `lo`:
\* the value is reduced modulo 2^width, the other bits of the byte are kept
SetBits(byte, lo, width, v) ==
    LET old == (byte \div (2^lo)) % (2^width)
    IN  byte - old * (2^lo) + (v % (2^width)) * (2^lo)

RECURSIVE BitOr(_, _)
\* a | b
BitOr(a, b) ==
    IF a = 0 THEN b
    ELSE IF b = 0 THEN a
    ELSE (IF a % 2 = 1 \/ b % 2 = 1 THEN 1 ELSE 0) + 2 * BitOr(a \div 2, b \div 2)

\* combined_data = (hi << 8) | lo, stored in a uint16_t
CombineBytesSwapped(hi, lo) == BitOr(lo * 256, hi) % 65536
CombineBytes(hi, lo) == BitOr(hi * 256, lo) % 65536

---------------------------------------------------------------------------
(* Transport *)

WriteResults == {0, I2C_WRITE_FAILED}

\* tcs3472x_i2c_hal_write(buffer, length) returning rc
HalWrite(buffer, rc) ==
    [kind |-> "write", bytes |-> buffer, len |-> Len(buffer), rc |-> rc]

\* tcs3472x_i2c_hal_read(buffer, length) returning rc and leaving `buffer`
HalRead(buffer, length, rc) ==
    [kind |-> "read", bytes |-> buffer, len |-> length, rc |-> rc]

\* a buffer initialised to zero of which read() filled the first k bytes
Partial(frame, k) == [i \in 1..Len(frame) |-> IF i <= k THEN frame[i] ELSE 0]

\* the outcomes of a read of the bytes `frame`: all of them and success, or
\* fewer than asked and failure
ReadOutcomes(frames) ==
    {[rc |-> 0, buffer |-> f] : f \in frames}
    \cup
    UNION {{[rc |-> I2C_READ_FAILED, buffer |-> Partial(f, k)] : k \in 0..(Len(f) - 1)} : f \in frames}

AnyFailed(cs) == \E i \in 1..Len(cs) : cs[i].rc < 0

---------------------------------------------------------------------------
(* Driver helpers *)

_build_command_register_no_cmd(cr, reg_address, cmd_type) ==
    SetBits(SetBits(cr, 5, 2, cmd_type), 0, 5, reg_address)

\* the byte left in command_register, which is also the result
_build_command_register(cr, reg_address, cmd_type) ==
    SetBits(SetBits(SetBits(cr, 7, 1, 1), 5, 2, cmd_type), 0, 5, reg_address)

\* the transport calls of _write_command_register: one write of the frame,
\* whose failure is logged and otherwise ignored
_write_command_register(cr, reg_address, cmd_type, rc) ==
    <<HalWrite(<<_build_command_register(cr, reg_address, cmd_type)>>, rc)>>

_calc_atime_in_milliseconds(atime) ==
    (INTEGRATION_TIME_CONST - atime) * INTEGRATION_TIME_MULTIPLIER

MAX_INTEGRATION_TIME_ALLOWED == INTEGRATION_TIME_CONST * INTEGRATION_TIME_MULTIPLIER

\* conversion of the float num/den to uint8_t: the fraction is discarded; a
\* value whose integral part does not fit has no defined result
FloatToUint8RoundUp(num, den) ==
    LET q == IF num >= 0 THEN (num + den - 1) \div den ELSE -((-num) \div den)
    IN  IF q \in Byte THEN {q} ELSE Byte

FloatToUint8(num, den) ==
    LET q == IF num >= 0 THEN num \div den ELSE -((-num) \div den)
    IN  IF q \in Byte THEN {q} ELSE Byte

SetAtimeEncodeNoSaturation(integration_time) ==
    {[atime_reg |-> r,
      actual_integration_time |-> _calc_atime_in_milliseconds(r)] :
        r \in FloatToUint8(INTEGRATION_TIME_CONST * INTEGRATION_TIME_MULTIPLIER
                             - integration_time,
                           INTEGRATION_TIME_MULTIPLIER)}

\* tcs3472x_set_atime, lines 110-117: the register byte and the time reported
SetAtimeEncode(integration_time) ==
    IF integration_time >= MAX_INTEGRATION_TIME_ALLOWED
    THEN {[atime_reg |-> 0,
           actual_integration_time |-> Tenths(INTEGRATION_TIME_SPECIAL_CASE)]}
    ELSE {[atime_reg |-> r,
           actual_integration_time |-> _calc_atime_in_milliseconds(r)] :
             r \in FloatToUint8(INTEGRATION_TIME_CONST * INTEGRATION_TIME_MULTIPLIER
                                  - integration_time,
                                INTEGRATION_TIME_MULTIPLIER)}

\* tcs3472x_get_atime, lines 145-153
GetAtimeDecode(atime_reg) ==
    IF atime_reg = 0 THEN Tenths(INTEGRATION_TIME_SPECIAL_CASE)
    ELSE _calc_atime_in_milliseconds(atime_reg)

_get_color_data_repeat(cr, reg_address, w, rd) ==
    [cr    |-> _build_command_register(cr, reg_address, REPEAT_BYTE),
     calls |-> _write_command_register(cr, reg_address, REPEAT_BYTE, w)
               \o <<HalRead(rd.buffer, 2, rd.rc)>>,
     ret   |-> CombineBytes(rd.buffer[2], rd.buffer[1])]

\* _get_color_data: the byte left in command_register, the transport calls
\* made, whose results are not looked at, and the value returned
_get_color_data(cr, reg_address, w, rd) ==
    [cr    |-> _build_command_register(cr, reg_address, AUTO_INCREMENT),
     calls |-> _write_command_register(cr, reg_address, AUTO_INCREMENT, w)
               \o <<HalRead(rd.buffer, 2, rd.rc)>>,
     ret   |-> CombineBytes(rd.buffer[2], rd.buffer[1])]

---------------------------------------------------------------------------
(* State *)

NoSet == [req |-> -1, reg |-> -1, ret |-> -1]

Init ==
    /\ command_register = 0
    /\ op = "none"
    /\ arg = <<>>
    /\ calls = <<>>
    /\ ret = "void"
    /\ last_set = NoSet
    /\ prior_failed = FALSE

\* what every operation leaves behind
Done(name, a, cr, cs, r, ls) ==
    /\ op' = name
    /\ arg' = a
    /\ command_register' = cr
    /\ calls' = cs
    /\ ret' = r
    /\ last_set' = ls
    /\ prior_failed' = (prior_failed \/ AnyFailed(calls))

---------------------------------------------------------------------------
(* Operations *)

tcs3472x_init_abort(indeterminate, w1, w2) ==
    LET enable_register ==
            SetBits(SetBits(SetBits(SetBits(indeterminate, 4, 1, 1), 3, 1, 1), 1, 1, 1), 0, 1, 1)
        command == _write_command_register(command_register, ENABLE_REGISTER, REPEAT_BYTE, w1)
    IN  Done("init", <<>>,
             _build_command_register(command_register, ENABLE_REGISTER, REPEAT_BYTE),
             IF w1 < 0 THEN command ELSE command \o <<HalWrite(<<enable_register>>, w2)>>,
             "void", last_set)

\* `indeterminate` is what the uninitialised local enable_register holds
\* before four of its fields are assigned
tcs3472x_init(indeterminate, w1, w2) ==
    LET enable_register ==
            SetBits(SetBits(SetBits(SetBits(indeterminate, 4, 1, 1), 3, 1, 1), 1, 1, 1), 0, 1, 1)
    IN  Done("init", <<>>,
             _build_command_register(command_register, ENABLE_REGISTER, REPEAT_BYTE),
             _write_command_register(command_register, ENABLE_REGISTER, REPEAT_BYTE, w1)
                 \o <<HalWrite(<<enable_register>>, w2)>>,
             "void", last_set)

tcs3472x_get_enable(w, rd) ==
    Done("get_enable", <<>>,
         _build_command_register(command_register, ENABLE_REGISTER, REPEAT_BYTE),
         _write_command_register(command_register, ENABLE_REGISTER, REPEAT_BYTE, w)
             \o <<HalRead(rd.buffer, 1, rd.rc)>>,
         IF rd.rc < 0 THEN 0 ELSE rd.buffer[1],
         last_set)

tcs3472x_get_id(w, rd) ==
    Done("get_id", <<>>,
         _build_command_register(command_register, ID_REGISTER, REPEAT_BYTE),
         _write_command_register(command_register, ID_REGISTER, REPEAT_BYTE, w)
             \o <<HalRead(rd.buffer, 1, rd.rc)>>,
         IF rd.rc < 0 THEN 0 ELSE rd.buffer[1],
         last_set)

tcs3472x_set_atime(integration_time, w) ==
    \E e \in SetAtimeEncode(integration_time) :
        LET cr == _build_command_register(command_register, ATIME_REGISTER, REPEAT_BYTE)
            send_data == <<cr, e.atime_reg>>
        IN  Done("set_atime", <<integration_time>>, cr,
                 <<HalWrite(send_data, w)>>,
                 IF w < 0 THEN Tenths(-1) ELSE e.actual_integration_time,
                 IF w < 0 THEN NoSet
                 ELSE [req |-> integration_time, reg |-> e.atime_reg,
                       ret |-> e.actual_integration_time])

tcs3472x_get_atime(w, rd) ==
    Done("get_atime", <<>>,
         _build_command_register(command_register, ATIME_REGISTER, REPEAT_BYTE),
         _write_command_register(command_register, ATIME_REGISTER, REPEAT_BYTE, w)
             \o <<HalRead(rd.buffer, 1, rd.rc)>>,
         IF rd.rc < 0 THEN Tenths(-1) ELSE GetAtimeDecode(rd.buffer[1]),
         last_set)

tcs3472x_get_all_colors_data(w, rd) ==
    LET data == rd.buffer
    IN  Done("get_all_colors_data", <<>>,
             _build_command_register(command_register, CDATAL_REGISTER, AUTO_INCREMENT),
             _write_command_register(command_register, CDATAL_REGISTER, AUTO_INCREMENT, w)
                 \o <<HalRead(data, 8, rd.rc)>>,
             <<CombineBytes(data[2], data[1]), CombineBytes(data[4], data[3]),
               CombineBytes(data[6], data[5]), CombineBytes(data[8], data[7])>>,
             last_set)

tcs3472x_get_clear_data(w, rd) ==
    LET r == _get_color_data(command_register, CDATAL_REGISTER, w, rd)
    IN  Done("get_clear_data", <<>>, r.cr, r.calls, r.ret, last_set)

tcs3472x_get_red_data(w, rd) ==
    LET r == _get_color_data(command_register, RDATAL_REGISTER, w, rd)
    IN  Done("get_red_data", <<>>, r.cr, r.calls, r.ret, last_set)

tcs3472x_get_green_data(w, rd) ==
    LET r == _get_color_data(command_register, GDATAL_REGISTER, w, rd)
    IN  Done("get_green_data", <<>>, r.cr, r.calls, r.ret, last_set)

tcs3472x_get_blue_data(w, rd) ==
    LET r == _get_color_data(command_register, BDATAL_REGISTER, w, rd)
    IN  Done("get_blue_data", <<>>, r.cr, r.calls, r.ret, last_set)

\* a call of _build_command_register on its own
BuildCommand(reg_address, cmd_type) ==
    LET byte == _build_command_register(command_register, reg_address, cmd_type)
    IN  Done("build_command_register", <<reg_address, cmd_type, command_register>>, byte, <<>>, byte, last_set)

---------------------------------------------------------------------------
(* Inputs *)

\* requested integration times: 100.0, 613.0, 614.4 and 700.0 ms
TimeSamples == {Tenths(100), Tenths(613), MAX_INTEGRATION_TIME_ALLOWED, Tenths(700)}

\* what the local enable_register of tcs3472x_init may hold on entry
IndeterminateSamples == {0, 4, 27, 224, 228, 255}

\* register contents a 1-byte read delivers
RegisterSamples == {0, 27, 68, 214, 255}

RegisterFrames == {<<b>> : b \in RegisterSamples}

\* the ATIME register holds the byte written last, if any
AtimeFrames == {<<b>> : b \in RegisterSamples \cup ({last_set.reg} \cap Byte)}

\* a channel's low and high byte
ChannelFrames == {<<16, 0>>, <<52, 18>>, <<255, 255>>}

ExampleFrame == <<16, 0, 32, 0, 48, 0, 64, 0>>

ColorFrames == {ExampleFrame, <<1, 2, 3, 4, 5, 6, 7, 8>>, [i \in 1..8 |-> 255]}

\* byte values with low bits, high bits, none and all set
ByteSamples == {0, 1, 16, 128, 255}

\* the example with the low and high byte of channel c (0 clear .. 3 blue) replaced
ChannelVariant(c, lo, hi) ==
    [i \in 1..8 |-> IF i = 2 * c + 1 THEN lo ELSE IF i = 2 * c + 2 THEN hi ELSE ExampleFrame[i]]

\* every frame of bytes 0 and 255, and every value of ByteSamples in each
\* byte pair of the example
GridFrames ==
    [1..8 -> {0, 255}]
    \cup {ChannelVariant(c, lo, hi) : c \in 0..3, lo \in ByteSamples, hi \in ByteSamples}

\* the byte the last successful tcs3472x_set_atime wrote, or 0
AtimeEcho == {<<b>> : b \in {0} \cup ({last_set.reg} \cap Byte)}

CommandTypes == {REPEAT_BYTE, AUTO_INCREMENT, SPECIAL_FUNCTION}

\* 5-bit register addresses
Addresses == 0..31

---------------------------------------------------------------------------
(* The driver under any sequence of calls *)

Next ==
    \/ \E indeterminate \in IndeterminateSamples, w1 \in WriteResults, w2 \in WriteResults :
           tcs3472x_init(indeterminate, w1, w2)
    \/ \E w \in WriteResults, rd \in ReadOutcomes(RegisterFrames) : tcs3472x_get_enable(w, rd)
    \/ \E w \in WriteResults, rd \in ReadOutcomes(RegisterFrames) : tcs3472x_get_id(w, rd)
    \/ \E t \in TimeSamples, w \in WriteResults : tcs3472x_set_atime(t, w)
    \/ \E w \in WriteResults, rd \in ReadOutcomes(AtimeFrames) : tcs3472x_get_atime(w, rd)
    \/ \E w \in WriteResults, rd \in ReadOutcomes(ColorFrames) : tcs3472x_get_all_colors_data(w, rd)
    \/ \E w \in WriteResults, rd \in ReadOutcomes(ChannelFrames) : tcs3472x_get_clear_data(w, rd)
    \/ \E w \in WriteResults, rd \in ReadOutcomes(ChannelFrames) : tcs3472x_get_red_data(w, rd)
    \/ \E w \in WriteResults, rd \in ReadOutcomes(ChannelFrames) : tcs3472x_get_green_data(w, rd)
    \/ \E w \in WriteResults, rd \in ReadOutcomes(ChannelFrames) : tcs3472x_get_blue_data(w, rd)

Spec == Init /\ [][Next]_vars

---------------------------------------------------------------------------
(* Integration time: a first request anywhere on the 0.1 ms grid, then     *)
(* reads of the ATIME register                                             *)

RequestAtime ==
    /\ op = "none"
    /\ \E t \in 0..MaxTenths, w \in WriteResults : tcs3472x_set_atime(t, w)

ReadBackAtime ==
    \E w \in WriteResults, rd \in ReadOutcomes(AtimeEcho) : tcs3472x_get_atime(w, rd)

NextAtime == RequestAtime \/ ReadBackAtime

SpecAtime == Init /\ [][NextAtime]_vars

---------------------------------------------------------------------------
(* Colour data: a first burst read of any frame of the grid, then the      *)
(* single-channel reads                                                    *)

FirstAllColors ==
    /\ op = "none"
    /\ \E w \in WriteResults, rd \in ReadOutcomes(GridFrames) : tcs3472x_get_all_colors_data(w, rd)

NextColors ==
    \/ FirstAllColors
    \/ \E w \in WriteResults, rd \in ReadOutcomes(ChannelFrames) : tcs3472x_get_clear_data(w, rd)
    \/ \E w \in WriteResults, rd \in ReadOutcomes(ChannelFrames) : tcs3472x_get_red_data(w, rd)
    \/ \E w \in WriteResults, rd \in ReadOutcomes(ChannelFrames) : tcs3472x_get_green_data(w, rd)
    \/ \E w \in WriteResults, rd \in ReadOutcomes(ChannelFrames) : tcs3472x_get_blue_data(w, rd)

SpecColors == Init /\ [][NextColors]_vars

---------------------------------------------------------------------------
(* Command framing: _build_command_register on every address and type     *)

NextCommand == \E a \in Addresses, t \in CommandTypes : BuildCommand(a, t)

SpecCommand == Init /\ [][NextCommand]_vars

---------------------------------------------------------------------------
(* Properties *)

AllSucceeded == ~AnyFailed(calls)

\* tcs3472x_get_atime read back the byte the last successful tcs3472x_set_atime wrote
ReadBack ==
    /\ op = "get_atime"
    /\ AllSucceeded
    /\ last_set.req >= 0
    /\ calls[2].bytes = <<last_set.reg>>

Distance(x, y) == IF x >= y THEN x - y ELSE y - x

\* C1: for every requested time strictly between 0 and 614.4 ms,
\* tcs3472x_get_atime after tcs3472x_set_atime, all transport calls succeeding
\* and the byte written read back, returns a time within 2.4 ms of the request.
C1_RoundTripBelowSaturation ==
    (ReadBack /\ last_set.req > 0 /\ last_set.req < 6144)
        => Distance(ret, last_set.req) <= 24

\* Below the last register step the round trip does hold: for requests above 0
\* and up to 612.0 ms the byte written is at least 1.
RoundTripUpTo612 ==
    (ReadBack /\ last_set.req > 0 /\ last_set.req <= 6120)
        => Distance(ret, last_set.req) <= 24

\* C2 as stated: tcs3472x_set_atime(100.0) writes ATIME byte 213 and the
\* tcs3472x_get_atime that reads it back returns 103.2 ms.
C2_Writes213Returns1032 ==
    /\ (op = "set_atime" /\ arg = <<1000>>) => calls[1].bytes[2] = 213
    /\ (ReadBack /\ last_set.req = 1000) => ret = 1032

\* C2 amended: tcs3472x_set_atime(100.0) writes ATIME byte 214 (256 - 41.67
\* truncated) and the tcs3472x_get_atime that reads it back returns
\* (256 - 214) * 2.4 = 100.8 ms.
C2_Writes214Returns1008 ==
    /\ (op = "set_atime" /\ arg = <<1000>>) => calls[1].bytes[2] = 214
    /\ (ReadBack /\ last_set.req = 1000) => ret = 1008

C2_Witness ==
    ReadBack /\ last_set.req = 1000 /\ calls[2].bytes = <<214>> /\ ret = 1008

\* C3: with a succeeding transport tcs3472x_set_atime returns the time of the
\* byte it wrote, which is what tcs3472x_get_atime returns on reading that
\* byte back; a written byte of 0 is reported as 700.0 ms.
C3_SetReturnsTimeOfWrittenByte ==
    /\ (op = "set_atime" /\ AllSucceeded /\ calls[1].bytes[2] = 0) => ret = 7000
    /\ ReadBack => ret = last_set.ret

\* C4: a failure of any transport call inside tcs3472x_get_enable,
\* tcs3472x_get_id, tcs3472x_get_atime or tcs3472x_set_atime, the write of
\* the command frame included, makes the operation return its sentinel: 0
\* for get_enable and get_id, a negative value for get_atime and set_atime.
C4_SentinelOnAnyFailure ==
    /\ (op \in {"get_enable", "get_id"} /\ AnyFailed(calls)) => ret = 0
    /\ (op \in {"get_atime", "set_atime"} /\ AnyFailed(calls)) => ret < 0

\* C5: for every requested time of 614.4 ms or more tcs3472x_set_atime makes
\* one 2-byte write, the ATIME command frame 0x81 followed by 0x00, and when
\* the write succeeds returns 700.0 ms.
C5_Saturation ==
    (op = "set_atime" /\ arg[1] >= 6144)
        => /\ Len(calls) = 1
           /\ calls[1].kind = "write"
           /\ calls[1].bytes = <<129, 0>>
           /\ (calls[1].rc >= 0 => ret = 7000)

\* 616.8 ms, where 256 - ms/2.4 is -1
C5_Witness ==
    /\ op = "set_atime"
    /\ arg = <<6168>>
    /\ calls = <<[kind |-> "write", bytes |-> <<129, 0>>, len |-> 2, rc |-> 0]>>
    /\ ret = 7000

\* C6: for every address a in 0..31 and type t in {0, 1, 3},
\* _build_command_register(a, t) returns 128 + 32*t + a: bit 7 set, bits 6-5
\* equal to t, bits 4-0 equal to a, whatever command_register held before.
C6_CommandByte ==
    op = "build_command_register"
        => /\ ret = 128 + 32 * arg[2] + arg[1]
           /\ ret \div 128 = 1
           /\ (ret \div 32) % 4 = arg[2]
           /\ ret % 32 = arg[1]
           /\ command_register = ret

\* ENABLE with Repeat framed when command_register held 0xFF
C6_Witness ==
    op = "build_command_register" /\ arg = <<0, 0, 255>> /\ ret = 128

\* C7: for the 8 bytes [c0,c1,r0,r1,g0,g1,b0,b1] the transport read returned,
\* tcs3472x_get_all_colors_data stores clear = c1*256+c0, red = r1*256+r0,
\* green = g1*256+g0, blue = b1*256+b0, each in 0..65535; the example frame
\* gives 16, 32, 48, 64.
C7_ChannelDecode ==
    (op = "get_all_colors_data" /\ calls[2].rc >= 0)
        => LET d == calls[2].bytes
           IN  /\ ret = <<d[2] * 256 + d[1], d[4] * 256 + d[3],
                          d[6] * 256 + d[5], d[8] * 256 + d[7]>>
               /\ \A i \in 1..4 : ret[i] \in 0..65535
               /\ (d = <<16, 0, 32, 0, 48, 0, 64, 0>> => ret = <<16, 32, 48, 64>>)

C7_Witness ==
    /\ op = "get_all_colors_data"
    /\ calls[2].rc >= 0
    /\ calls[2].bytes = <<16, 0, 32, 0, 48, 0, 64, 0>>
    /\ ret = <<16, 32, 48, 64>>

\* kind and length of each transport call an operation makes when nothing fails
ExpectedCalls(name) ==
    CASE name = "init" -> <<<<"write", 1>>, <<"write", 1>>>>
      [] name \in {"get_enable", "get_id", "get_atime"} -> <<<<"write", 1>>, <<"read", 1>>>>
      [] name = "set_atime" -> <<<<"write", 2>>>>
      [] name = "get_all_colors_data" -> <<<<"write", 1>>, <<"read", 8>>>>
      [] name \in {"get_clear_data", "get_red_data", "get_green_data", "get_blue_data"}
            -> <<<<"write", 1>>, <<"read", 2>>>>
      [] OTHER -> <<>>

IssuedCalls == [i \in 1..Len(calls) |-> <<calls[i].kind, calls[i].len>>]

\* C8: a failed transport write in tcs3472x_init neither aborts it nor latches
\* an error: init still writes its enable byte after a failed command-frame
\* write and returns; and whatever failed before, every operation issues
\* exactly the transport calls it issues when nothing fails, each once.
C8_NoAbortNoLatchNoRetry ==
    /\ (op = "init" /\ calls[1].rc < 0)
           => (Len(calls) = 2 /\ calls[2].kind = "write" /\ calls[2].len = 1 /\ ret = "void")
    /\ IssuedCalls = ExpectedCalls(op)

\* after an earlier failure, init fails to write its command frame and still
\* writes the enable byte
C8_Witness ==
    /\ prior_failed
    /\ op = "init"
    /\ calls[1].rc < 0
    /\ IssuedCalls = <<<<"write", 1>>, <<"write", 1>>>>

\* C9: the enable byte tcs3472x_init passes to the transport is exactly 0x1B:
\* PON, AEN, WEN and AIEN set, the reserved bits 2 and 5-7 zero.
C9_EnableByteIs0x1B ==
    op = "init" => calls[2].bytes = <<27>>

\* the command frame and the read length the claim gives for each reading operation
ExpectedFrame(name) ==
    CASE name = "get_enable" -> 128
      [] name = "get_id" -> 128 + 18
      [] name = "get_atime" -> 128 + 1
      [] name = "get_all_colors_data" -> 128 + 32 + 20
      [] name = "get_clear_data" -> 128 + 32 + 20
      [] name = "get_red_data" -> 128 + 32 + 22
      [] name = "get_green_data" -> 128 + 32 + 24
      [] name = "get_blue_data" -> 128 + 32 + 26

ExpectedReadLength(name) ==
    CASE name \in {"get_enable", "get_id", "get_atime"} -> 1
      [] name = "get_all_colors_data" -> 8
      [] name \in {"get_clear_data", "get_red_data", "get_green_data", "get_blue_data"} -> 2

ReadingOperations ==
    {"get_enable", "get_id", "get_atime", "get_all_colors_data",
     "get_clear_data", "get_red_data", "get_green_data", "get_blue_data"}

\* C10: every transport read is immediately preceded, in the same operation,
\* by a 1-byte write of the command frame selecting the register read
\* (ENABLE, ID, ATIME with Repeat and a 1-byte read; CDATAL with
\* AutoIncrement and one 8-byte read; the channel's low register with
\* AutoIncrement and a 2-byte read), and a reading operation reads once.
C10_CommandBeforeRead ==
    /\ \A i \in 1..Len(calls) :
           calls[i].kind = "read"
               => /\ op \in ReadingOperations
                  /\ i > 1
                  /\ calls[i - 1].kind = "write"
                  /\ calls[i - 1].bytes = <<ExpectedFrame(op)>>
                  /\ calls[i].len = ExpectedReadLength(op)
    /\ op \in ReadingOperations
           => Cardinality({i \in 1..Len(calls) : calls[i].kind = "read"}) = 1

\* the blue channel: frame 0xBA, then a 2-byte read
C10_Witness ==
    /\ op = "get_blue_data"
    /\ Len(calls) = 2
    /\ calls[1].kind = "write" /\ calls[1].bytes = <<186>>
    /\ calls[2].kind = "read" /\ calls[2].len = 2

=============================================================================
